---- MODULE Spec2Model ----
(***************************************************************************)
(* A model of app.py, the Flask back office of smart-restaurant-app:       *)
(* registration, login and logout over the Users table, the menu CRUD      *)
(* handlers over MenuItems joined to Categories, and the /analytics        *)
(* read-model over Orders and OrderDetails.                                *)
(*                                                                         *)
(* Each browser holds the Flask session cookie (session) and has at most   *)
(* one request in flight.  A handler that writes is split at the place     *)
(* where other requests can interleave: after it has passed login_required *)
(* and opened its connection, and before its write statement, which is     *)
(* executed and committed in one step (the statement's transaction).       *)
(* The tables carry no declared constraint besides the identity keys and   *)
(* the column types.  load_user opens and closes its own connection        *)
(* within the step that dispatches the request.                            *)
(***************************************************************************)
EXTENDS Integers, Sequences, FiniteSets, TLC

VARIABLES
    Users,            \* rows of the Users table
    session,          \* session[b]: the user id in b's session cookie, or NoUser
    MenuItems,        \* rows of the MenuItems table
    nextMenuItemID,   \* the identity counter of MenuItems.MenuItemID
    Orders,           \* rows of the Orders table (written elsewhere)
    OrderDetails,     \* rows of the OrderDetails table (written elsewhere)
    req,              \* req[b]: b's request in flight, or Idle
    conns,            \* who holds the connections opened and not closed: the
                      \* browsers whose handler holds one, and Unreferenced
                      \* for those whose handler raised before conn.close()
    resp,             \* history: the request answered last, and its response
    loggedOut,        \* history: b's last session change was a completed logout
    lastWrite         \* history: per MenuItems row, the form last written to it

vars == <<Users, session, MenuItems, nextMenuItemID, Orders, OrderDetails,
          req, conns, resp, loggedOut, lastWrite>>

(***************************************************************************)
(* Bounds of the model.                                                    *)
(***************************************************************************)
MaxUsers == 2
MaxItems == 2

Browsers == {"b1", "b2"}
NoUser == 0
Missing == "<missing>"
Unreferenced == "unreferenced"
Malformed == -1

Usernames == {"ann"}
Emails == {"ann@x", "bob@x"}
PasswordInputs == {"pw1", "pw2"}
Salts == {"s1", "s2"}

(***************************************************************************)
(* werkzeug.security: a salted one-way hash.  The digest is modelled as    *)
(* the pair of salt and password, which no other pair collides with.       *)
(***************************************************************************)
Digest(salt, password) == <<salt, password>>

generate_password_hash(salt, password) ==
    [salt |-> salt, digest |-> Digest(salt, password)]

check_password_hash(pwhash, password) ==
    pwhash.digest = Digest(pwhash.salt, password)

(***************************************************************************)
(* Requests and responses.  A response is a redirect to an endpoint, a     *)
(* rendered template with its context, or an error page, with the message  *)
(* the handler flashed.                                                    *)
(***************************************************************************)
Response(kind, target, flashed) ==
    [kind |-> kind, target |-> target, flash |-> flashed, items |-> <<>>,
     charts |-> <<>>]

Redirect(target, flashed) == Response("redirect", target, flashed)

Render(template, flashed) == Response("render", template, flashed)

\* browser b's request to route, with its arguments, is answered by response
Answer(b, route, method, args, response) ==
    [b |-> b, route |-> route, method |-> method, args |-> args,
     kind |-> response.kind, target |-> response.target, flash |-> response.flash,
     items |-> response.items, charts |-> response.charts]

NoAnswer == Answer("none", "none", "none", <<>>, Response("none", "none", "none"))

Idle == [route |-> "idle", method |-> "none", id |-> 0, user |-> NoUser, part |-> <<>>]

InFlight(b) == req[b].route # "idle"

(***************************************************************************)
(* Flask-Login.                                                            *)
(***************************************************************************)
load_user(user_id) ==
    LET rows == {r \in Users : r.UserID = user_id}
    IN  IF rows # {} THEN (CHOOSE r \in rows : TRUE).UserID ELSE NoUser

\* the user id of current_user, NoUser for the anonymous user
current_user(b) ==
    IF session[b] = NoUser THEN NoUser ELSE load_user(session[b])

login_required(b) == current_user(b) # NoUser

\* login_manager.unauthorized(): the redirect to login_view
Unauthorized(b, route, method) ==
    /\ resp' = Answer(b, route, method, <<>>, Redirect("login", "please_log_in"))
    /\ UNCHANGED <<Users, session, MenuItems, nextMenuItemID, Orders,
                   OrderDetails, req, conns, loggedOut, lastWrite>>

(***************************************************************************)
(* / and the authentication handlers.                                      *)
(***************************************************************************)
index(b) ==
    /\ ~InFlight(b)
    /\ IF login_required(b)
       THEN /\ resp' = Answer(b, "index", "GET", <<>>, Render("base.html", "none"))
            /\ UNCHANGED <<Users, session, MenuItems, nextMenuItemID, Orders,
                           OrderDetails, req, conns, loggedOut, lastWrite>>
       ELSE Unauthorized(b, "index", "GET")

\* the identity value of the next Users row
NextUserID == Cardinality(Users) + 1

registerGet(b) ==
    /\ ~InFlight(b)
    /\ resp' = Answer(b, "register", "GET", <<>>, Render("register.html", "none"))
    /\ UNCHANGED <<Users, session, MenuItems, nextMenuItemID, Orders,
                   OrderDetails, req, conns, loggedOut, lastWrite>>

InsertUser(users, username, email, password_hash) ==
    users \cup {[UserID |-> NextUserID, Username |-> username, Email |-> email,
                 PasswordHash |-> password_hash, Role |-> "Customer"]}

registerPost(b, username, email, password) ==
    /\ ~InFlight(b)
    /\ Cardinality(Users) < MaxUsers
    /\ \E salt \in Salts :
         Users' = InsertUser(Users, username, email,
                             generate_password_hash(salt, password))
    /\ resp' = Answer(b, "register", "POST", <<email, password>>,
                      Redirect("login", "registered"))
    /\ UNCHANGED <<session, MenuItems, nextMenuItemID, Orders, OrderDetails,
                   req, conns, loggedOut, lastWrite>>

register(b) ==
    \/ registerGet(b)
    \/ \E username \in Usernames, email \in Emails, password \in PasswordInputs :
         registerPost(b, username, email, password)

\* the SELECT of login without its WHERE clause: the id of any Users row
FetchAnyUser(email) ==
    IF Users = {} THEN {NoUser} ELSE {r.UserID : r \in Users}

\* SELECT ... FROM Users WHERE Email = ? and fetchone(): the id of one of the
\* matching rows (the statement states no order), or NoUser
FetchByEmail(email) ==
    LET rows == {r \in Users : r.Email = email}
    IN  IF rows = {} THEN {NoUser} ELSE {r.UserID : r \in rows}

UserRow(user_id) == CHOOSE r \in Users : r.UserID = user_id

login_user(b, user_id) == [session EXCEPT ![b] = user_id]

loginGet(b) ==
    /\ ~InFlight(b)
    /\ resp' = Answer(b, "login", "GET", <<>>, Render("login.html", "none"))
    /\ UNCHANGED <<Users, session, MenuItems, nextMenuItemID, Orders,
                   OrderDetails, req, conns, loggedOut, lastWrite>>

loginPost(b, email, password) ==
    /\ ~InFlight(b)
    /\ \E row \in FetchByEmail(email) :
         IF row # NoUser /\ check_password_hash(UserRow(row).PasswordHash, password)
         THEN /\ session' = login_user(b, row)
              /\ loggedOut' = [loggedOut EXCEPT ![b] = FALSE]
              /\ resp' = Answer(b, "login", "POST", <<email, password>>,
                                Redirect("index", "logged_in"))
         ELSE /\ resp' = Answer(b, "login", "POST", <<email, password>>,
                                Render("login.html", "invalid"))
              /\ UNCHANGED <<session, loggedOut>>
    /\ UNCHANGED <<Users, MenuItems, nextMenuItemID, Orders, OrderDetails,
                   req, conns, lastWrite>>

login(b) ==
    \/ loginGet(b)
    \/ \E email \in Emails, password \in PasswordInputs :
         loginPost(b, email, password)

\* a logout that leaves the session cookie in place
logout_user_keeping_session(b) == session

logout_user(b) == [session EXCEPT ![b] = NoUser]

logout(b) ==
    /\ ~InFlight(b)
    /\ IF login_required(b)
       THEN /\ session' = logout_user(b)
            /\ loggedOut' = [loggedOut EXCEPT ![b] = TRUE]
            /\ resp' = Answer(b, "logout", "GET", <<>>, Redirect("login", "logged_out"))
            /\ UNCHANGED <<Users, MenuItems, nextMenuItemID, Orders,
                           OrderDetails, req, conns, lastWrite>>
       ELSE Unauthorized(b, "logout", "GET")

(***************************************************************************)
(* The menu tables and forms.  A form field is a string, or Missing when   *)
(* the POST does not carry it; the database converts the strings bound to  *)
(* the numeric columns.  The form of a POST is chosen where the handler    *)
(* reads request.form, after it has opened its connection.                 *)
(***************************************************************************)
Categories ==
    {[CategoryID |-> 1, Name |-> "Mains"], [CategoryID |-> 2, Name |-> "Sides"]}

ItemIDs == 1 .. MaxItems

MenuForm(name, category_id, price, active) ==
    [name |-> name, category_id |-> category_id, price |-> price, active |-> active]

Forms ==
    {MenuForm("Burger", "1", "9.99", "on"),
     MenuForm("Fries", "2", "10.99", Missing),
     MenuForm("Burger", "1", "10.99", ""),
     MenuForm("Fries", "3", "9.99", "on"),
     MenuForm(Missing, "1", "9.99", "on"),
     MenuForm("Fries", "1", "abc", "on")}

\* the conversion of the category_id parameter to the INT column
ParseInt(s) ==
    CASE s = "1" -> 1 [] s = "2" -> 2 [] s = "3" -> 3 [] OTHER -> Malformed

\* the conversion of the price parameter to the DECIMAL column, in cents
ParsePrice(s) ==
    CASE s = "9.99" -> 999 [] s = "10.99" -> 1099 [] OTHER -> Malformed

\* request.form["name"], ["category_id"] or ["price"] raises BadRequestKeyError
BadRequestKey(form) ==
    form.name = Missing \/ form.category_id = Missing \/ form.price = Missing

\* the database rejects a parameter (a conversion error)
DataError(form) ==
    ParseInt(form.category_id) = Malformed \/ ParsePrice(form.price) = Malformed

\* menu_create: active = 1 if "active" in request.form else 0
CreateActive(form) == IF form.active # Missing THEN 1 ELSE 0

\* menu_edit: active = 1 if request.form.get("active") else 0
EditActive(form) == IF form.active # Missing /\ form.active # "" THEN 1 ELSE 0

MenuRow(id, form, active) ==
    [MenuItemID |-> id, Name |-> form.name,
     CategoryID |-> ParseInt(form.category_id),
     Price |-> ParsePrice(form.price), Active |-> active]

ItemIDsOf(items) == {m.MenuItemID : m \in items}

NoWrite == [op |-> "none", form |-> MenuForm(Missing, Missing, Missing, Missing)]

\* the collation order of the names that ORDER BY m.Name compares
NameOrder(name) == CASE name = "Burger" -> 1 [] name = "Fries" -> 2 [] OTHER -> 3

RECURSIVE OrderedBy(_, _)
\* ORDER BY: the sequences that hold each row of rows once, in ascending order
\* of key; rows of equal key come in any order
OrderedBy(rows, key) ==
    IF rows = {} THEN {<<>>}
    ELSE UNION {{<<r>> \o rest : rest \in OrderedBy(rows \ {r}, key)} :
                r \in {x \in rows : \A y \in rows : key[x] <= key[y]}}

\* FROM MenuItems m JOIN Categories c ON m.CategoryID = c.CategoryID
MenuJoin(items) ==
    {[MenuItemID |-> p[1].MenuItemID, Name |-> p[1].Name, CategoryName |-> p[2].Name,
      Price |-> p[1].Price, Active |-> p[1].Active] :
        p \in {q \in items \X Categories : q[1].CategoryID = q[2].CategoryID}}

\* the list query without its ORDER BY: the joined rows in any order
MenuListUnordered(items) ==
    OrderedBy(MenuJoin(items), [r \in MenuJoin(items) |-> 0])

\* SELECT ... FROM MenuItems m JOIN Categories c ... ORDER BY m.Name
MenuListQuery(items) ==
    OrderedBy(MenuJoin(items), [r \in MenuJoin(items) |-> NameOrder(r.Name)])

menu_list(b) ==
    /\ ~InFlight(b)
    /\ IF login_required(b)
       THEN /\ \E items \in MenuListQuery(MenuItems) :
                 resp' = Answer(b, "menu_list", "GET", <<>>,
                                [Render("menu_list.html", "none") EXCEPT !.items = items])
            /\ UNCHANGED <<Users, session, MenuItems, nextMenuItemID, Orders,
                           OrderDetails, req, conns, loggedOut, lastWrite>>
       ELSE Unauthorized(b, "menu_list", "GET")

\* a handler past login_required that has opened its connection
Opened(b, route, method, id, part) ==
    /\ req' = [req EXCEPT ![b] =
                 [route |-> route, method |-> method, id |-> id,
                  user |-> current_user(b), part |-> part]]
    /\ conns' = conns \cup {b}
    /\ UNCHANGED <<Users, session, MenuItems, nextMenuItemID, Orders,
                   OrderDetails, resp, loggedOut, lastWrite>>

\* the handler raises after get_conn(): conn.close() is not reached
Raised(b, code) ==
    /\ req' = [req EXCEPT ![b] = Idle]
    /\ conns' = (conns \ {b}) \cup {Unreferenced}
    /\ resp' = Answer(b, req[b].route, req[b].method, <<>>,
                      Response("error", code, "none"))
    /\ UNCHANGED <<Users, session, MenuItems, nextMenuItemID, Orders,
                   OrderDetails, loggedOut, lastWrite>>

\* conn.commit(); conn.close(); flash(...); redirect(url_for("menu_list"))
Committed(b, flashed, args) ==
    /\ req' = [req EXCEPT ![b] = Idle]
    /\ conns' = conns \ {b}
    /\ resp' = Answer(b, req[b].route, req[b].method, args,
                      Redirect("menu_list", flashed))
    /\ UNCHANGED <<Users, session, Orders, OrderDetails, loggedOut>>

menuCreateGet(b) ==
    /\ ~InFlight(b)
    /\ IF login_required(b)
       THEN /\ resp' = Answer(b, "menu_create", "GET", <<>>,
                              Render("menu_form.html", "none"))
            /\ UNCHANGED <<Users, session, MenuItems, nextMenuItemID, Orders,
                           OrderDetails, req, conns, loggedOut, lastWrite>>
       ELSE Unauthorized(b, "menu_create", "GET")

\* the creations in flight; with them the identity counter stays within MaxItems
CreatesInFlight == Cardinality({b \in Browsers : req[b].route = "menu_create"})

menuCreateBegin(b) ==
    /\ ~InFlight(b)
    /\ IF login_required(b)
       THEN /\ nextMenuItemID + CreatesInFlight <= MaxItems
            /\ Opened(b, "menu_create", "POST", 0, <<>>)
       ELSE Unauthorized(b, "menu_create", "POST")

\* INSERT INTO MenuItems (Name, CategoryID, Price, Active) VALUES (?, ?, ?, ?)
InsertMenuItem(items, id, form) == items \cup {MenuRow(id, form, CreateActive(form))}

menuCreateFinish(b, form) ==
    /\ req[b].route = "menu_create"
    /\ IF BadRequestKey(form) THEN Raised(b, "400")
       ELSE IF DataError(form) THEN Raised(b, "500")
       ELSE /\ MenuItems' = InsertMenuItem(MenuItems, nextMenuItemID, form)
            /\ nextMenuItemID' = nextMenuItemID + 1
            /\ lastWrite' = [lastWrite EXCEPT ![nextMenuItemID] =
                               [op |-> "create", form |-> form]]
            /\ Committed(b, "created", <<nextMenuItemID>>)

menu_create(b) ==
    \/ menuCreateGet(b)
    \/ menuCreateBegin(b)
    \/ \E form \in Forms : menuCreateFinish(b, form)

\* SELECT * FROM MenuItems WHERE MenuItemID = ? and fetchone(): the row in a
\* sequence, or the empty sequence when no row has the id
SelectItem(items, id) ==
    IF id \in ItemIDsOf(items)
    THEN <<CHOOSE m \in items : m.MenuItemID = id>>
    ELSE <<>>

menuEditGet(b, id) ==
    /\ ~InFlight(b)
    /\ IF login_required(b)
       THEN /\ resp' = Answer(b, "menu_edit", "GET", <<>>,
                              Render("menu_form.html", "none"))
            /\ UNCHANGED <<Users, session, MenuItems, nextMenuItemID, Orders,
                           OrderDetails, req, conns, loggedOut, lastWrite>>
       ELSE Unauthorized(b, "menu_edit", "GET")

menuEditBegin(b, id) ==
    /\ ~InFlight(b)
    /\ IF login_required(b)
       THEN Opened(b, "menu_edit", "POST", id, SelectItem(MenuItems, id))
       ELSE Unauthorized(b, "menu_edit", "POST")

\* an UPDATE whose SET list lacks the price
UpdateKeepingPrice(items, id, form) ==
    {IF m.MenuItemID = id
     THEN [MenuRow(id, form, EditActive(form)) EXCEPT !.Price = m.Price]
     ELSE m : m \in items}

\* UPDATE MenuItems SET Name = ?, CategoryID = ?, Price = ?, Active = ?
\* WHERE MenuItemID = ?
UpdateMenuItem(items, id, form) ==
    {IF m.MenuItemID = id THEN MenuRow(id, form, EditActive(form)) ELSE m : m \in items}

menuEditFinish(b, form) ==
    /\ req[b].route = "menu_edit"
    /\ IF BadRequestKey(form) THEN Raised(b, "400")
       ELSE IF DataError(form) THEN Raised(b, "500")
       ELSE /\ MenuItems' = UpdateMenuItem(MenuItems, req[b].id, form)
            /\ lastWrite' = IF req[b].id \in ItemIDsOf(MenuItems)
                            THEN [lastWrite EXCEPT ![req[b].id] =
                                    [op |-> "edit", form |-> form]]
                            ELSE lastWrite
            /\ UNCHANGED nextMenuItemID
            /\ Committed(b, "updated", <<req[b].id>>)

menu_edit(b) ==
    \/ \E id \in ItemIDs : menuEditGet(b, id)
    \/ \E id \in ItemIDs : menuEditBegin(b, id)
    \/ \E form \in Forms : menuEditFinish(b, form)

\* menu_delete without the login_required decorator
menuDeleteUnguarded(b, id) ==
    /\ ~InFlight(b)
    /\ Opened(b, "menu_delete", "GET", id, <<>>)

menuDeleteBegin(b, id) ==
    /\ ~InFlight(b)
    /\ IF login_required(b)
       THEN Opened(b, "menu_delete", "GET", id, <<>>)
       ELSE Unauthorized(b, "menu_delete", "GET")

\* a DELETE without its WHERE clause
DeleteEveryItem(items, id) == {}

\* DELETE FROM MenuItems WHERE MenuItemID = ?
DeleteMenuItem(items, id) == {m \in items : m.MenuItemID # id}

menuDeleteFinish(b) ==
    /\ req[b].route = "menu_delete"
    /\ MenuItems' = DeleteMenuItem(MenuItems, req[b].id)
    /\ lastWrite' = [lastWrite EXCEPT ![req[b].id] = NoWrite]
    /\ UNCHANGED nextMenuItemID
    /\ Committed(b, "deleted", <<req[b].id>>)

menu_delete(b) ==
    \/ \E id \in ItemIDs : menuDeleteBegin(b, id)
    \/ menuDeleteFinish(b)

(***************************************************************************)
(* /analytics.  OrderTime is a pair <<day, hour>>, an amount is a number   *)
(* of cents; float() of such an amount keeps its order and is written as   *)
(* the amount.                                                             *)
(***************************************************************************)
TopN == 5

\* CAST(OrderTime AS DATE)
CastDate(t) == t[1]

\* str(r.OrderDate)
IsoDate(d) == [iso |-> d]

RECURSIVE Sum(_, _)
\* SUM(...) over the rows of a group
Sum(rows, val) ==
    IF rows = {} THEN 0
    ELSE LET r == CHOOSE x \in rows : TRUE
         IN  val[r] + Sum(rows \ {r}, val)

\* TOP n
Top(seq, n) == SubSeq(seq, 1, IF Len(seq) < n THEN Len(seq) ELSE n)

\* SELECT CAST(OrderTime AS DATE) AS OrderDate, SUM(TotalAmount) FROM Orders
\* GROUP BY CAST(OrderTime AS DATE) ORDER BY OrderDate
DailyRevenueQuery(orders) ==
    LET rows == {[OrderDate |-> d,
                  TotalRevenue |->
                     Sum({o \in orders : CastDate(o.OrderTime) = d},
                         [o \in orders |-> o.TotalAmount])] :
                 d \in {CastDate(o.OrderTime) : o \in orders}}
    IN  OrderedBy(rows, [r \in rows |-> r.OrderDate])

\* the top-items query ordered without DESC
TopItemsAscending(details, items) ==
    LET joined == {p \in details \X items : p[1].MenuItemID = p[2].MenuItemID}
        rows == {[Name |-> n,
                  TotalRevenue |->
                     Sum({p \in joined : p[2].Name = n},
                         [p \in joined |-> p[1].Quantity * p[1].UnitPrice])] :
                 n \in {p[2].Name : p \in joined}}
    IN  {Top(ordered, TopN) :
           ordered \in OrderedBy(rows, [r \in rows |-> r.TotalRevenue])}

\* SELECT TOP 5 mi.Name, SUM(od.Quantity * od.UnitPrice) FROM OrderDetails od
\* JOIN MenuItems mi ... GROUP BY mi.Name ORDER BY TotalRevenue DESC
TopItemsQuery(details, items) ==
    LET joined == {p \in details \X items : p[1].MenuItemID = p[2].MenuItemID}
        rows == {[Name |-> n,
                  TotalRevenue |->
                     Sum({p \in joined : p[2].Name = n},
                         [p \in joined |-> p[1].Quantity * p[1].UnitPrice])] :
                 n \in {p[2].Name : p \in joined}}
    IN  {Top(ordered, TopN) :
           ordered \in OrderedBy(rows, [r \in rows |-> 0 - r.TotalRevenue])}

analyticsBegin(b) ==
    /\ ~InFlight(b)
    /\ IF login_required(b)
       THEN /\ \E revenue_rows \in DailyRevenueQuery(Orders) :
                 req' = [req EXCEPT ![b] =
                           [route |-> "analytics", method |-> "GET", id |-> 0,
                            user |-> current_user(b), part |-> revenue_rows]]
            /\ conns' = conns \cup {b}
            /\ UNCHANGED <<Users, session, MenuItems, nextMenuItemID, Orders,
                           OrderDetails, resp, loggedOut, lastWrite>>
       ELSE Unauthorized(b, "analytics", "GET")

Charts(revenue_rows, top_rows) ==
    [dates |-> [i \in DOMAIN revenue_rows |-> IsoDate(revenue_rows[i].OrderDate)],
     revenues |-> [i \in DOMAIN revenue_rows |-> revenue_rows[i].TotalRevenue],
     item_names |-> [i \in DOMAIN top_rows |-> top_rows[i].Name],
     item_revenues |-> [i \in DOMAIN top_rows |-> top_rows[i].TotalRevenue]]

analyticsFinish(b) ==
    /\ req[b].route = "analytics"
    /\ \E top_rows \in TopItemsQuery(OrderDetails, MenuItems) :
         resp' = Answer(b, "analytics", "GET", <<>>,
                        [Render("analytics.html", "none") EXCEPT
                           !.charts = Charts(req[b].part, top_rows)])
    /\ req' = [req EXCEPT ![b] = Idle]
    /\ conns' = conns \ {b}
    /\ UNCHANGED <<Users, session, MenuItems, nextMenuItemID, Orders,
                   OrderDetails, loggedOut, lastWrite>>

analytics(b) ==
    \/ analyticsBegin(b)
    \/ analyticsFinish(b)

(***************************************************************************)
(* The specifications.                                                     *)
(***************************************************************************)
\* a Users row as register leaves it
Registered(id, username, email, salt, password) ==
    [UserID |-> id, Username |-> username, Email |-> email,
     PasswordHash |-> generate_password_hash(salt, password), Role |-> "Customer"]

SeedOrders ==
    {[OrderID |-> 1, OrderTime |-> <<1, 9>>, TotalAmount |-> 1998],
     [OrderID |-> 2, OrderTime |-> <<1, 20>>, TotalAmount |-> 1099]}

SeedOrderDetails ==
    {[OrderDetailID |-> 1, OrderID |-> 1, MenuItemID |-> 1, Quantity |-> 2, UnitPrice |-> 999],
     [OrderDetailID |-> 2, OrderID |-> 2, MenuItemID |-> 2, Quantity |-> 1, UnitPrice |-> 1099]}

\* the history of a menu whose item 1 was created from form
SeedWrite(form) ==
    [id \in ItemIDs |-> IF id = 1 THEN [op |-> "create", form |-> form] ELSE NoWrite]

\* the application started on a database without users and menu items
Init ==
    /\ Users = {}
    /\ session = [b \in Browsers |-> NoUser]
    /\ MenuItems = {}
    /\ nextMenuItemID = 1
    /\ Orders = SeedOrders
    /\ OrderDetails = SeedOrderDetails
    /\ req = [b \in Browsers |-> Idle]
    /\ conns = {}
    /\ resp = NoAnswer
    /\ loggedOut = [b \in Browsers |-> FALSE]
    /\ lastWrite = [id \in ItemIDs |-> NoWrite]

Next ==
    \E b \in Browsers :
        \/ index(b)
        \/ register(b)
        \/ login(b)
        \/ logout(b)
        \/ menu_list(b)
        \/ menu_create(b)
        \/ menu_edit(b)
        \/ menu_delete(b)
        \/ analytics(b)

Spec == Init /\ [][Next]_vars

\* authentication, over a menu that holds one item
InitAuth ==
    /\ Users = {}
    /\ session = [b \in Browsers |-> NoUser]
    /\ MenuItems = InsertMenuItem({}, 1, MenuForm("Burger", "1", "9.99", "on"))
    /\ nextMenuItemID = 2
    /\ Orders = SeedOrders
    /\ OrderDetails = SeedOrderDetails
    /\ req = [b \in Browsers |-> Idle]
    /\ conns = {}
    /\ resp = NoAnswer
    /\ loggedOut = [b \in Browsers |-> FALSE]
    /\ lastWrite = SeedWrite(MenuForm("Burger", "1", "9.99", "on"))

NextAuth ==
    \E b \in Browsers :
        \/ index(b)
        \/ register(b)
        \/ login(b)
        \/ logout(b)
        \/ menu_list(b)

SpecAuth == InitAuth /\ [][NextAuth]_vars

\* the protected handlers, with one user registered and logged in from browser
\* b1, and browser b2 without a session
InitMenu ==
    /\ Users = {Registered(1, "ann", "ann@x", "s1", "pw1")}
    /\ session = [b \in Browsers |-> IF b = "b1" THEN 1 ELSE NoUser]
    /\ MenuItems = {}
    /\ nextMenuItemID = 1
    /\ Orders = SeedOrders
    /\ OrderDetails = SeedOrderDetails
    /\ req = [b \in Browsers |-> Idle]
    /\ conns = {}
    /\ resp = NoAnswer
    /\ loggedOut = [b \in Browsers |-> FALSE]
    /\ lastWrite = [id \in ItemIDs |-> NoWrite]

NextMenu ==
    \E b \in Browsers :
        \/ index(b)
        \/ logout(b)
        \/ menu_list(b)
        \/ menu_create(b)
        \/ menu_edit(b)
        \/ menu_delete(b)
        \/ analytics(b)

SpecMenu == InitMenu /\ [][NextMenu]_vars

\* two browsers of one user editing and deleting the items of a menu
InitConc ==
    /\ Users = {Registered(1, "ann", "ann@x", "s1", "pw1")}
    /\ session = [b \in Browsers |-> 1]
    /\ MenuItems = InsertMenuItem({}, 1, MenuForm("Burger", "1", "9.99", "on"))
    /\ nextMenuItemID = 2
    /\ Orders = SeedOrders
    /\ OrderDetails = SeedOrderDetails
    /\ req = [b \in Browsers |-> Idle]
    /\ conns = {}
    /\ resp = NoAnswer
    /\ loggedOut = [b \in Browsers |-> FALSE]
    /\ lastWrite = SeedWrite(MenuForm("Burger", "1", "9.99", "on"))

NextConc ==
    \E b \in Browsers :
        \/ menu_edit(b)
        \/ menu_delete(b)

SpecConc == InitConc /\ [][NextConc]_vars

(***************************************************************************)
(* /analytics over every content of the tables within the bounds: NItems   *)
(* menu items, the last of which may carry the name of the first, an order *)
(* line per item, one for an item that is gone and a second one for item   *)
(* 1, and NOrders orders, two to a day.                                    *)
(***************************************************************************)
NItems == 6
NOrders == 3

AnalyticsItem(i, name) ==
    [MenuItemID |-> i, Name |-> <<"item", name>>, CategoryID |-> 1,
     Price |-> 100 * i, Active |-> 1]

AnalyticsMenus ==
    {{AnalyticsItem(i, IF i = NItems /\ shared THEN 1 ELSE i) : i \in 1 .. NItems} :
       shared \in BOOLEAN}

AnalyticsDetails ==
    {[OrderDetailID |-> i, OrderID |-> 1, MenuItemID |-> i, Quantity |-> 1,
      UnitPrice |-> 100 * ((i % 3) + 1)] : i \in 1 .. (NItems + 1)}
    \cup {[OrderDetailID |-> NItems + 2, OrderID |-> 2, MenuItemID |-> 1,
           Quantity |-> 2, UnitPrice |-> 150]}

AnalyticsOrders ==
    {[OrderID |-> i, OrderTime |-> <<(i + 1) \div 2, i>>, TotalAmount |-> 100 * i] :
       i \in 1 .. NOrders}

InitAnalytics ==
    /\ Users = {Registered(1, "ann", "ann@x", "s1", "pw1")}
    /\ session = [b \in Browsers |-> IF b = "b1" THEN 1 ELSE NoUser]
    /\ MenuItems \in AnalyticsMenus
    /\ nextMenuItemID = NItems + 1
    /\ Orders \in SUBSET AnalyticsOrders
    /\ OrderDetails \in SUBSET AnalyticsDetails
    /\ req = [b \in Browsers |-> Idle]
    /\ conns = {}
    /\ resp = NoAnswer
    /\ loggedOut = [b \in Browsers |-> FALSE]
    /\ lastWrite = [id \in ItemIDs |-> NoWrite]

NextAnalytics == \E b \in Browsers : analytics(b)

SpecAnalytics == InitAnalytics /\ [][NextAnalytics]_vars

(***************************************************************************)
(* Authentication: the claims checked under SpecAuth.                      *)
(***************************************************************************)
\* the last answer is to a login POST
LoginAnswered == resp.route = "login" /\ resp.method = "POST"

UsersWithEmail(email) == {r \in Users : r.Email = email}

\* some Users row was registered with this email and this password
RegisteredWith(email, password) ==
    \E r \in UsersWithEmail(email) : check_password_hash(r.PasswordHash, password)

\* C1: whatever happened before, once register(username, email, password) has
\* completed, a login with that email and that password succeeds: the browser's
\* session holds the id of a Users row with that email and the response is the
\* redirect to /.
C1_LoginAfterRegister ==
    (LoginAnswered /\ RegisteredWith(resp.args[1], resp.args[2]))
    => /\ resp.kind = "redirect" /\ resp.target = "index"
       /\ \E r \in UsersWithEmail(resp.args[1]) : session[resp.b] = r.UserID

\* C2 as stated: a login POST with the email of an existing user and a password
\* that does not verify against the stored hash re-renders the login form with
\* the error flash, and afterwards the browser has no authenticated session,
\* whatever state it was in before.
C2_FailedLoginLeavesNoSession ==
    (/\ LoginAnswered
     /\ UsersWithEmail(resp.args[1]) # {}
     /\ ~RegisteredWith(resp.args[1], resp.args[2]))
    => /\ resp.kind = "render" /\ resp.target = "login.html" /\ resp.flash = "invalid"
       /\ session[resp.b] = NoUser

\* C2 as amended: a login POST with the email of an existing user and a password
\* that verifies against the stored hash of no Users row with that email
\* re-renders the login form with the error flash and leaves every browser's
\* session as it was: a browser without a session still has none, a browser that
\* was logged in stays logged in.  (The answer of a login POST records the
\* browser, the email and the password of the step that gives it.)
C2_FailedLoginKeepsSession ==
    [][(resp'.route = "login" /\ resp'.method = "POST")
         => LET b == resp'.b
                email == resp'.args[1]
                password == resp'.args[2]
            IN  (/\ loginPost(b, email, password)
                 /\ UsersWithEmail(email) # {}
                 /\ ~RegisteredWith(email, password))
                => /\ resp'.kind = "render" /\ resp'.target = "login.html"
                   /\ resp'.flash = "invalid"
                   /\ session' = session]_vars

\* a logged-in browser was refused a login with the email of an existing user
C2_Witness ==
    /\ LoginAnswered
    /\ UsersWithEmail(resp.args[1]) # {}
    /\ ~RegisteredWith(resp.args[1], resp.args[2])
    /\ resp.flash = "invalid"
    /\ session[resp.b] # NoUser

\* C3: after a browser's logout has completed, and until a login of that browser
\* succeeds, each of its requests to /menu is answered by the redirect to /login
\* and lists no menu item.
C3_MenuAfterLogout ==
    (resp.route = "menu_list" /\ loggedOut[resp.b])
    => /\ resp.kind = "redirect" /\ resp.target = "login"
       /\ resp.items = <<>>

\* a browser that logged in and out asked for /menu, while the menu holds an item
C3_Witness ==
    /\ resp.route = "menu_list"
    /\ loggedOut[resp.b]
    /\ resp.kind = "redirect"
    /\ MenuItems # {}

(***************************************************************************)
(* The menu: the claims checked under SpecMenu.                            *)
(***************************************************************************)
\* the browser carries no authenticated session
Anonymous(b) == ~\E r \in Users : r.UserID = session[b]

\* the browser sends a new request to one of the protected routes: the step
\* admits the request or answers it
ProtectedRequest(b) ==
    /\ ~InFlight(b)
    /\ req'[b] # req[b] \/ resp'.b = b
    /\ \/ index(b) \/ logout(b) \/ menu_list(b) \/ menu_create(b)
       \/ menu_edit(b) \/ menu_delete(b) \/ analytics(b)

\* the step answers the browser by the redirect to the login page, admits no
\* request of it and leaves MenuItems as it is
RedirectedToLogin(b) ==
    /\ resp'.b = b /\ resp'.kind = "redirect" /\ resp'.target = "login"
    /\ req'[b] = Idle
    /\ MenuItems' = MenuItems

\* C4: a request without an authenticated session to /, /logout, /menu,
\* /menu/create, /menu/edit/{id}, /menu/delete/{id} or /analytics is answered by
\* the redirect to the login page and leaves MenuItems unchanged; and each step
\* that changes MenuItems completes a create, edit or delete request that was
\* admitted with the session of a registered user.  (The first conjunct is
\* the contrapositive: no step of a browser without a session that is not such
\* a redirect is a request to a protected route.)
C4_WritesNeedSession ==
    /\ [][\A b \in Browsers :
            (Anonymous(b) /\ ~RedirectedToLogin(b)) => ~ProtectedRequest(b)]_vars
    /\ [][MenuItems' # MenuItems
            => \E b \in Browsers :
                 /\ req[b].route \in {"menu_create", "menu_edit", "menu_delete"}
                 /\ req'[b] = Idle
                 /\ \E r \in Users : r.UserID = req[b].user]_vars

\* a browser without a session asked to delete an item, and the menu holds items
C4_Witness ==
    /\ resp.route = "menu_delete"
    /\ Anonymous(resp.b)
    /\ resp.kind = "redirect" /\ resp.target = "login"
    /\ MenuItems # {}

\* C5: an admitted delete(id) always completes, with the redirect to the menu
\* list and no error; when no row has that id MenuItems is unchanged, and when a
\* row has it exactly that row is removed.
C5_Delete ==
    /\ [](\A b \in Browsers :
            req[b].route = "menu_delete" => ENABLED menuDeleteFinish(b))
    /\ [][\A b \in Browsers :
            menuDeleteFinish(b)
            => LET id == req[b].id
                   hit == {m \in MenuItems : m.MenuItemID = id}
               IN  /\ resp'.b = b /\ resp'.route = "menu_delete"
                   /\ resp'.kind = "redirect" /\ resp'.target = "menu_list"
                   /\ hit = {} => MenuItems' = MenuItems
                   /\ hit # {} => /\ MenuItems' = MenuItems \ hit
                                  /\ Cardinality(MenuItems') =
                                       Cardinality(MenuItems) - 1]_vars

\* a delete of an id that was never allocated was answered, and the menu holds
\* an item
C5_Witness ==
    /\ resp.route = "menu_delete" /\ resp.kind = "redirect"
    /\ resp.target = "menu_list"
    /\ resp.args[1] >= nextMenuItemID
    /\ MenuItems # {}

\* the handler accepts the form: every field it indexes is there and converts
Accepted(form) == ~BadRequestKey(form) /\ ~DataError(form)

\* the submitted active flag: false when the field is absent or empty
SubmittedActive(form) == IF form.active \in {Missing, ""} THEN 0 ELSE 1

\* C6: after an admitted edit POST for an existing id the row's name,
\* category-id, price and active flag are the submitted values (active false
\* when the field is absent), the row count, the row's id and every other row
\* are unchanged, and a following list() shows the row with the updated price.
C6_EditReplaces ==
    /\ [][\A b \in Browsers, form \in Forms :
            (/\ menuEditFinish(b, form)
             /\ Accepted(form)
             /\ req[b].id \in ItemIDsOf(MenuItems))
            => LET id == req[b].id
               IN  /\ \E m \in MenuItems' :
                        /\ m.MenuItemID = id
                        /\ m.Name = form.name
                        /\ m.CategoryID = ParseInt(form.category_id)
                        /\ m.Price = ParsePrice(form.price)
                        /\ m.Active = SubmittedActive(form)
                   /\ Cardinality(MenuItems') = Cardinality(MenuItems)
                   /\ ItemIDsOf(MenuItems') = ItemIDsOf(MenuItems)
                   /\ {m \in MenuItems' : m.MenuItemID # id} =
                        {m \in MenuItems : m.MenuItemID # id}]_vars
    /\ [](resp.route = "menu_list" /\ resp.kind = "render"
            => \A id \in ItemIDs :
                 lastWrite[id].op = "edit"
                 => \E i \in 1 .. Len(resp.items) :
                      /\ resp.items[i].MenuItemID = id
                      /\ resp.items[i].Price = ParsePrice(lastWrite[id].form.price))

\* the form names an existing category
CategoryExists(form) ==
    \E c \in Categories : c.CategoryID = ParseInt(form.category_id)

CategoryName(form) ==
    (CHOOSE c \in Categories : c.CategoryID = ParseInt(form.category_id)).Name

\* C7: an admitted create POST with a name, a price, the active field and the
\* id of an existing category adds exactly one row to MenuItems and changes no
\* other; a following list() contains that row with the submitted name, the
\* parsed price, active true and the category's name; and every list() is in
\* ascending order of item name.
C7_CreateThenList ==
    /\ [][\A b \in Browsers, form \in Forms :
            (/\ menuCreateFinish(b, form)
             /\ Accepted(form) /\ form.active # Missing /\ CategoryExists(form))
            => /\ MenuItems \subseteq MenuItems'
               /\ Cardinality(MenuItems') = Cardinality(MenuItems) + 1
               /\ \A m \in MenuItems' \ MenuItems :
                    /\ m.Name = form.name
                    /\ m.CategoryID = ParseInt(form.category_id)
                    /\ m.Price = ParsePrice(form.price)
                    /\ m.Active = 1]_vars
    /\ [](resp.route = "menu_list" /\ resp.kind = "render"
            => /\ \A i, j \in 1 .. Len(resp.items) :
                    i < j => NameOrder(resp.items[i].Name) <=
                               NameOrder(resp.items[j].Name)
               /\ \A id \in ItemIDs :
                    LET w == lastWrite[id]
                    IN  (/\ w.op = "create"
                         /\ w.form.active # Missing
                         /\ CategoryExists(w.form))
                        => \E i \in 1 .. Len(resp.items) :
                             resp.items[i] =
                               [MenuItemID |-> id, Name |-> w.form.name,
                                CategoryName |-> CategoryName(w.form),
                                Price |-> ParsePrice(w.form.price),
                                Active |-> 1])

\* a list() shows two items of different names, one of them as it was created
\* with the active field and an existing category
C7_Witness ==
    /\ resp.route = "menu_list" /\ resp.kind = "render"
    /\ Len(resp.items) = 2
    /\ resp.items[1].Name # resp.items[2].Name
    /\ \E id \in ItemIDs :
         /\ lastWrite[id].op = "create"
         /\ lastWrite[id].form.active # Missing
         /\ CategoryExists(lastWrite[id].form)

\* C10: every request closes its database connection before it returns, on
\* every path: each open connection belongs to a request still in flight.
C10_ConnectionsClosed == conns \subseteq {b \in Browsers : InFlight(b)}

(***************************************************************************)
(* Concurrent edits and deletes: the claim checked under SpecConc.         *)
(***************************************************************************)
\* C9: an admitted edit POST whose form the handler accepts completes with the
\* redirect and no error whatever other edit or delete of the same id is in
\* flight; a row that was last written by an edit holds all four fields of the
\* form of the edit committed last, never fields of two requests; and an edit
\* never adds a row, so it never re-creates a deleted one.
C9_LastWriteWins ==
    /\ [](\A b \in Browsers, form \in Forms :
            (req[b].route = "menu_edit" /\ Accepted(form))
            => ENABLED menuEditFinish(b, form))
    /\ [][\A b \in Browsers, form \in Forms :
            (menuEditFinish(b, form) /\ Accepted(form))
            => /\ resp'.b = b /\ resp'.route = "menu_edit"
               /\ resp'.kind = "redirect" /\ resp'.target = "menu_list"
               /\ req'[b] = Idle]_vars
    /\ [](\A m \in MenuItems :
            LET w == lastWrite[m.MenuItemID]
            IN  w.op = "edit"
                => /\ m.Name = w.form.name
                   /\ m.CategoryID = ParseInt(w.form.category_id)
                   /\ m.Price = ParsePrice(w.form.price)
                   /\ m.Active = SubmittedActive(w.form))
    /\ [][\A b \in Browsers, form \in Forms :
            menuEditFinish(b, form)
            => ItemIDsOf(MenuItems') = ItemIDsOf(MenuItems)]_vars

\* an edit of an item was committed while another edit of the same item, which
\* had read the row before, is still in flight
C9_Witness ==
    /\ resp.route = "menu_edit" /\ resp.method = "POST" /\ resp.kind = "redirect"
    /\ resp.args[1] \in ItemIDsOf(MenuItems)
    /\ lastWrite[resp.args[1]].op = "edit"
    /\ \E b \in Browsers \ {resp.b} :
         /\ req[b].route = "menu_edit"
         /\ req[b].id = resp.args[1]
         /\ req[b].part # <<>>
         /\ req[b].part[1] \notin MenuItems

(***************************************************************************)
(* /analytics: the claim checked under SpecAnalytics.                      *)
(***************************************************************************)
\* the calendar dates of the orders
OrderDates == {o.OrderTime[1] : o \in Orders}

\* the order details of the menu items that exist, with their item
SoldItems == {p \in OrderDetails \X MenuItems : p[1].MenuItemID = p[2].MenuItemID}

SoldNames == {p[2].Name : p \in SoldItems}

\* the sum of quantity x unit-price over the details of the items of a name
NameRevenue(name) ==
    Sum({p \in SoldItems : p[2].Name = name},
        [p \in SoldItems |-> p[1].Quantity * p[1].UnitPrice])

\* the sum of total-amount over the orders of a date
DateRevenue(date) ==
    Sum({o \in Orders : o.OrderTime[1] = date}, [o \in Orders |-> o.TotalAmount])

\* C8: /analytics answers with a dates and a revenues sequence of the same
\* length, the number of distinct calendar dates of the orders, in ascending date
\* order, each revenue the sum of total-amount of that date's orders; and with a
\* top-items sequence of at most 5 distinct names whose revenues are the
\* per-name sums of quantity x unit-price, non-increasing, none smaller than the
\* sum of a name left out; and the request changes no table.
C8_Analytics ==
    /\ [](resp.route = "analytics" /\ resp.kind = "render"
            => LET c == resp.charts
                   n == Len(c.item_names)
               IN  /\ Len(c.dates) = Len(c.revenues)
                   /\ Len(c.dates) = Cardinality(OrderDates)
                   /\ \A i, j \in 1 .. Len(c.dates) :
                        i < j => c.dates[i].iso < c.dates[j].iso
                   /\ \A i \in 1 .. Len(c.dates) :
                        /\ c.dates[i].iso \in OrderDates
                        /\ c.revenues[i] = DateRevenue(c.dates[i].iso)
                   /\ Len(c.item_revenues) = n
                   /\ n <= 5
                   /\ n = IF Cardinality(SoldNames) < 5
                          THEN Cardinality(SoldNames) ELSE 5
                   /\ \A i, j \in 1 .. n :
                        i < j => /\ c.item_names[i] # c.item_names[j]
                                 /\ c.item_revenues[i] >= c.item_revenues[j]
                   /\ \A i \in 1 .. n :
                        /\ c.item_names[i] \in SoldNames
                        /\ c.item_revenues[i] = NameRevenue(c.item_names[i])
                   /\ \A name \in SoldNames \ {c.item_names[i] : i \in 1 .. n} :
                        \A i \in 1 .. n : NameRevenue(name) <= c.item_revenues[i])
    /\ [][\A b \in Browsers :
            analytics(b) => UNCHANGED <<Users, MenuItems, Orders, OrderDetails>>]_vars

\* /analytics answered over more than five sold names, a name sold in two order
\* details, and two orders of one date among orders of several dates
C8_Witness ==
    /\ resp.route = "analytics" /\ resp.kind = "render"
    /\ Len(resp.charts.item_names) = 5
    /\ Cardinality(SoldNames) > 5
    /\ \E name \in SoldNames :
         Cardinality({p \in SoldItems : p[2].Name = name}) > 1
    /\ Len(resp.charts.dates) > 1
    /\ Cardinality(Orders) > Len(resp.charts.dates)

====
